---- MODULE Spec2Model ----
(***************************************************************************)
(* Model of the two block-excision tools of the repository:                *)
(*   cleanup_dashboard.py        (static targets, brace-depth resolver)    *)
(*   cleanup_dashboard_final.py  (dynamic markers, slicing remover)        *)
(*                                                                         *)
(* A line of text is abstracted to what the code reads from it:            *)
(*   names  - the static anchors that are substrings of the line,          *)
(*   braces - its characters in order, reduced to "{", "}" and "x",        *)
(*   marks  - the dynamic marker substrings the line contains,             *)
(*   close  - whether line.strip() == "}",                                 *)
(*   txt    - the rest of its text (here: its position in the first input, *)
(*            so the lines of one document are pairwise different).        *)
(***************************************************************************)
EXTENDS Integers, Sequences, FiniteSets, TLC

VARIABLES
    input_file,        \* content of the file at input_file: a sequence of lines
    output_file,       \* content of the file at output_file
    written,           \* TRUE once this run has written output_file
    lines,             \* the in-memory working copy (f.readlines())
    console,           \* what the run has printed so far
    pc,                \* position of the run in main()
    run,               \* 1 for the first run, 2 for a run on the first run's output
    structs_to_remove, \* static tool: the (struct_name, start_idx) list
    k,                 \* static tool: position of the for loop in structs_to_remove
    lines_to_remove,   \* static tool: the set of marked 0-based indices
    orphaned_start,    \* dynamic tool: resolved boundaries, None when unresolved
    orphaned_end,
    sidebar_start,
    sidebar_end,
    calls              \* dynamic tool: the remove_lines calls made so far

vars == <<input_file, output_file, written, lines, console, pc, run,
          structs_to_remove, k, lines_to_remove,
          orphaned_start, orphaned_end, sidebar_start, sidebar_end, calls>>

staticVars == <<structs_to_remove, k, lines_to_remove>>
dynamicVars == <<orphaned_start, orphaned_end, sidebar_start, sidebar_end, calls>>

(***************************************************************************)
(* Bounds of the model.                                                    *)
(***************************************************************************)
MaxLen == 3          \* longest enumerated document of the static tool
MaxTargets == 2      \* longest enumerated structs_to_remove list
MaxDynLen == 5       \* longest fully enumerated document of the dynamic tool
MaxGapBase == 4      \* longest document into which a run of plain lines is inserted
MaxPad == 1          \* longest run of plain lines around and inside two sections

(***************************************************************************)
(* Program constants.                                                      *)
(***************************************************************************)
Lookahead == 10      \* "min(i + 10, len(lines))"

\* Python's None for a boundary that is not resolved; resolved boundaries are
\* 1-indexed line numbers, so never 0.
None == 0

(***************************************************************************)
(* Documents of the static tool.                                           *)
(***************************************************************************)
Anchors == {"A", "B"}

Plain == [names |-> {}, braces |-> <<"x">>]
StaticAlphabet ==
    { Plain,
      [names |-> {"A"}, braces |-> <<"x", "{">>],
      [names |-> {"B"}, braces |-> <<"x", "{">>],
      [names |-> {},    braces |-> <<"}">>] }

Tag(d) == [i \in 1..Len(d) |-> [names |-> d[i].names, braces |-> d[i].braces, txt |-> i]]

StaticDocs == UNION { { Tag(d) : d \in [1..n -> StaticAlphabet] } : n \in 0..MaxLen }

\* The 10-line document of the concrete scenario: lines 3-6 (1-indexed) are a
\* balanced block with a nested block inside, named "A" on line 3.
Scenario10 ==
    Tag(<< Plain, Plain,
           [names |-> {"A"}, braces |-> <<"x", "{">>],
           [names |-> {},    braces |-> <<"{">>],
           [names |-> {},    braces |-> <<"}">>],
           [names |-> {},    braces |-> <<"}">>],
           Plain, Plain, Plain, Plain >>)

\* Documents for the block boundary resolver alone: every way the braces of a
\* line can open, close, close-then-open or open-close-open, each with the anchor.
BraceAlphabet ==
    { Plain,
      [names |-> {"A"}, braces |-> <<"x">>],
      [names |-> {"A"}, braces |-> <<"x", "{">>],
      [names |-> {"A"}, braces |-> <<"}">>],
      [names |-> {"A"}, braces |-> <<"}", "x", "{">>],
      [names |-> {"A"}, braces |-> <<"{", "}">>],
      [names |-> {"A"}, braces |-> <<"{", "}", "{">>] }

BraceDocs == UNION { { Tag(d) : d \in [1..n -> BraceAlphabet] } : n \in 0..MaxLen }

Targets == [struct_name : Anchors, start_idx : 0..MaxLen]
TargetLists == UNION { [1..n -> Targets] : n \in 0..MaxTargets }

(***************************************************************************)
(* Console lines. Every print is a record of the same shape.               *)
(***************************************************************************)
Msg(m, n, a, b) == [msg |-> m, name |-> n, a |-> a, b |-> b]

(***************************************************************************)
(* cleanup_dashboard.py: remove_struct_definition                          *)
(***************************************************************************)
\* The inner "for char in line" loop, from character c on.
RECURSIVE CountBraces(_, _, _, _)
CountBraces(line, c, brace_count, started) ==
    IF c > Len(line)
    THEN [brace_count |-> brace_count, started |-> started]
    ELSE IF line[c] = "{"
         THEN CountBraces(line, c + 1, brace_count + 1, TRUE)
         ELSE IF line[c] = "}"
              THEN CountBraces(line, c + 1, brace_count - 1, started)
              ELSE CountBraces(line, c + 1, brace_count, started)

\* The "while i < len(lines)" loop, from the 0-based line i on.
RECURSIVE ScanLines(_, _, _, _)
ScanLines(ls, i, brace_count, started) ==
    IF ~(i < Len(ls))
    THEN i
    ELSE LET r == CountBraces(ls[i + 1].braces, 1, brace_count, started)
         IN  IF r.started /\ r.brace_count = 0
             THEN i + 1
             ELSE ScanLines(ls, i + 1, r.brace_count, r.started)

remove_struct_definition(ls, start_line_num) ==
    ScanLines(ls, start_line_num, 0, FALSE)

(***************************************************************************)
(* cleanup_dashboard.py: main                                              *)
(***************************************************************************)
\* The check left out: the expected index is trusted.
AnchorIn_trusting(struct_name, line) == TRUE

\* "struct_name in lines[start_idx]"
AnchorIn(struct_name, line) == struct_name \in line.names

\* range(start_idx, end_idx)
Range(a, b) == { i \in a..(b - 1) : TRUE }

\* The write loop testing the 1-based line number against the 0-based set.
RECURSIVE WriteKept_shifted(_, _, _)
WriteKept_shifted(ls, i, marked) ==
    IF i >= Len(ls)
    THEN << >>
    ELSE IF (i + 1) \notin marked
         THEN <<ls[i + 1]>> \o WriteKept_shifted(ls, i + 1, marked)
         ELSE WriteKept_shifted(ls, i + 1, marked)

\* "for i, line in enumerate(lines): if i not in lines_to_remove: f.write(line)"
RECURSIVE WriteKept(_, _, _)
WriteKept(ls, i, marked) ==
    IF i >= Len(ls)
    THEN << >>
    ELSE IF i \notin marked
         THEN <<ls[i + 1]>> \o WriteKept(ls, i + 1, marked)
         ELSE WriteKept(ls, i + 1, marked)

StaticInit ==
    /\ input_file \in StaticDocs \cup {Scenario10}
    /\ structs_to_remove \in TargetLists
    /\ lines = input_file
    /\ output_file = << >>
    /\ written = FALSE
    /\ console = << >>
    /\ pc = "loop"
    /\ run = 1
    /\ k = 1
    /\ lines_to_remove = {}
    /\ orphaned_start = None /\ orphaned_end = None
    /\ sidebar_start = None /\ sidebar_end = None
    /\ calls = << >>

\* One target, any start index, on the resolver's documents.
ResolverInit ==
    /\ input_file \in BraceDocs
    /\ \E i \in 0..MaxLen : structs_to_remove = << [struct_name |-> "A", start_idx |-> i] >>
    /\ lines = input_file
    /\ output_file = << >>
    /\ written = FALSE
    /\ console = << >>
    /\ pc = "loop"
    /\ run = 1
    /\ k = 1
    /\ lines_to_remove = {}
    /\ orphaned_start = None /\ orphaned_end = None
    /\ sidebar_start = None /\ sidebar_end = None
    /\ calls = << >>

\* One iteration of the for loop whose anchor is verified.
MarkTarget ==
    /\ pc = "loop"
    /\ k <= Len(structs_to_remove)
    /\ LET struct_name == structs_to_remove[k].struct_name
           start_idx == structs_to_remove[k].start_idx
       IN  /\ start_idx < Len(lines)
           /\ AnchorIn(struct_name, lines[start_idx + 1])
           /\ LET end_idx == remove_struct_definition(lines, start_idx)
              IN  /\ lines_to_remove' = lines_to_remove \cup Range(start_idx, end_idx)
                  /\ console' = Append(console,
                                       Msg("Marked", struct_name, start_idx + 1, end_idx))
    /\ k' = k + 1
    /\ UNCHANGED <<input_file, output_file, written, lines, pc, run,
                   structs_to_remove>>
    /\ UNCHANGED dynamicVars

\* One iteration of the for loop whose anchor is not on the expected line.
WarnTarget ==
    /\ pc = "loop"
    /\ k <= Len(structs_to_remove)
    /\ LET struct_name == structs_to_remove[k].struct_name
           start_idx == structs_to_remove[k].start_idx
       IN  /\ start_idx < Len(lines)
           /\ ~AnchorIn(struct_name, lines[start_idx + 1])
           /\ console' = Append(console,
                                Msg("WARNING", struct_name, start_idx + 1,
                                    lines[start_idx + 1].txt))
    /\ k' = k + 1
    /\ UNCHANGED <<input_file, output_file, written, lines, pc, run,
                   structs_to_remove, lines_to_remove>>
    /\ UNCHANGED dynamicVars

\* lines[start_idx] with start_idx >= len(lines) raises IndexError: the run ends
\* with a traceback and nothing is written.
IndexErrorTarget ==
    /\ pc = "loop"
    /\ k <= Len(structs_to_remove)
    /\ ~(structs_to_remove[k].start_idx < Len(lines))
    /\ pc' = "crashed"
    /\ console' = Append(console, Msg("IndexError", structs_to_remove[k].struct_name,
                                      structs_to_remove[k].start_idx + 1, 0))
    /\ UNCHANGED <<input_file, output_file, written, lines, run,
                   structs_to_remove, k, lines_to_remove>>
    /\ UNCHANGED dynamicVars

\* The write loop and the summary prints.
WriteOutput ==
    /\ pc = "loop"
    /\ k > Len(structs_to_remove)
    /\ output_file' = WriteKept(lines, 0, lines_to_remove)
    /\ written' = TRUE
    /\ console' = console \o
          << Msg("Removed", "", Cardinality(lines_to_remove), 0),
             Msg("Original", "", Len(lines), 0),
             Msg("Cleaned", "", Len(lines) - Cardinality(lines_to_remove), 0) >>
    /\ pc' = "done"
    /\ UNCHANGED <<input_file, lines, run, structs_to_remove, k, lines_to_remove>>
    /\ UNCHANGED dynamicVars

\* The tool is started again, with the same target list, on its own output.
Rerun ==
    /\ pc = "done"
    /\ run = 1
    /\ run' = 2
    /\ input_file' = output_file
    /\ lines' = output_file
    /\ written' = FALSE
    /\ console' = << >>
    /\ pc' = "loop"
    /\ k' = 1
    /\ lines_to_remove' = {}
    /\ UNCHANGED <<output_file, structs_to_remove>>
    /\ UNCHANGED dynamicVars

StaticNext == MarkTarget \/ WarnTarget \/ IndexErrorTarget \/ WriteOutput

SpecStatic == StaticInit /\ [][StaticNext]_vars

RerunNext == MarkTarget \/ WarnTarget \/ IndexErrorTarget \/ WriteOutput \/ Rerun

SpecRerun == StaticInit /\ [][RerunNext]_vars

ResolverNext == MarkTarget \/ WarnTarget \/ IndexErrorTarget \/ WriteOutput

SpecResolver == ResolverInit /\ [][ResolverNext]_vars

(***************************************************************************)
(* Documents of the dynamic tool.                                          *)
(***************************************************************************)
OS == "case trend(TrendInsight)"
OE == "private static func makeInitials"
SS == "// MARK: - ACCOUNT SIDEBAR VIEW"
SE == "fileprivate func initials(from name: String)"

DynPlain == [marks |-> {}, close |-> FALSE]
DynAlphabet ==
    { DynPlain,
      [marks |-> {OS}, close |-> FALSE],
      [marks |-> {OE}, close |-> FALSE],
      [marks |-> {SS}, close |-> FALSE],
      [marks |-> {SE}, close |-> FALSE],
      [marks |-> {},   close |-> TRUE] }

DynTag(d) == [i \in 1..Len(d) |-> [marks |-> d[i].marks, close |-> d[i].close, txt |-> i]]

Plains(n) == [i \in 1..n |-> DynPlain]

\* d with g plain lines inserted after its line p
InsertGap(d, p, g) ==
    SubSeq(d, 1, p) \o Plains(g) \o SubSeq(d, p + 1, Len(d))

\* A section: its start marker, its end marker and the closing line after it,
\* with a and b plain lines in between.
Section(start, end, a, b) ==
    << [marks |-> {start}, close |-> FALSE] >> \o Plains(a) \o
    << [marks |-> {end}, close |-> FALSE] >> \o Plains(b) \o
    << [marks |-> {}, close |-> TRUE] >>

\* The documents the dynamic tool is run on:
\*  - every document of at most MaxDynLen lines;
\*  - documents of marker and closing lines with a run of plain lines inserted
\*    that is as long as the lookahead window, or one line shorter;
\*  - documents holding both sections, one wholly before the other, in
\*    either order, with plain lines around and inside them.
IsDynDoc(doc) ==
    \/ \E m \in 0..MaxDynLen : \E d \in [1..m -> DynAlphabet] : doc = DynTag(d)
    \/ \E m \in 1..MaxGapBase : \E d \in [1..m -> DynAlphabet \ {DynPlain}] :
          \E p \in 1..m, g \in {Lookahead - 2, Lookahead - 1} :
              doc = DynTag(InsertGap(d, p, g))
    \/ \E p, m, q, a1, b1, a2, b2 \in 0..MaxPad :
          LET x == Section(OS, OE, a1, b1)
              y == Section(SS, SE, a2, b2)
          IN  \/ doc = DynTag(Plains(p) \o x \o Plains(m) \o y \o Plains(q))
              \/ doc = DynTag(Plains(p) \o y \o Plains(m) \o x \o Plains(q))

(***************************************************************************)
(* cleanup_dashboard_final.py: remove_lines                                *)
(***************************************************************************)
\* The position a Python slice bound n denotes in a list of length len.
PySliceBound(n, len) ==
    IF n < 0
    THEN (IF len + n < 0 THEN 0 ELSE len + n)
    ELSE (IF n > len THEN len ELSE n)

\* lines[:n]
SliceTo(ls, n) == SubSeq(ls, 1, PySliceBound(n, Len(ls)))

\* lines[n:]
SliceFrom(ls, n) == SubSeq(ls, PySliceBound(n, Len(ls)) + 1, Len(ls))

\* The slice taken from start_line itself: the 1-indexed start is not converted.
remove_lines_fromStartLine(ls, start_line, end_line) ==
    SliceTo(ls, start_line) \o SliceFrom(ls, end_line)

\* "lines[:start_idx] + lines[end_idx:]"
remove_lines(ls, start_line, end_line) ==
    LET start_idx == start_line - 1
        end_idx == end_line
    IN  SliceTo(ls, start_idx) \o SliceFrom(ls, end_idx)

(***************************************************************************)
(* cleanup_dashboard_final.py: main                                        *)
(***************************************************************************)
Min(a, b) == IF a < b THEN a ELSE b

\* "for j in range(i, min(i + 10, len(lines))): if lines[j].strip() == "}": ... break"
\* The 1-indexed number of the first closing line in the window, None without one.
\* The search for the closing line without the window: it runs to the last line.
RECURSIVE FindClose_unbounded(_, _, _)
FindClose_unbounded(ls, j, stop) ==
    IF j >= Len(ls)
    THEN None
    ELSE IF ls[j + 1].close
         THEN j + 1
         ELSE FindClose_unbounded(ls, j + 1, stop)

RECURSIVE FindClose(_, _, _)
FindClose(ls, j, stop) ==
    IF j >= stop
    THEN None
    ELSE IF ls[j + 1].close
         THEN j + 1
         ELSE FindClose(ls, j + 1, stop)

\* The body of "for i, line in enumerate(lines)" for one i, on the scan state s.
ScanLine(ls, i, s) ==
    LET line == ls[i + 1]
        s1 == IF OS \in line.marks /\ s.orphaned_start = None
              THEN [s EXCEPT !.orphaned_start = i + 1,
                             !.out = Append(@, Msg("Found orphaned code start", "", i + 1, 0))]
              ELSE s
        e1 == FindClose(ls, i, Min(i + Lookahead, Len(ls)))
        s2 == IF s1.orphaned_start # None /\ OE \in line.marks /\ s1.orphaned_end = None
                 /\ e1 # None
              THEN [s1 EXCEPT !.orphaned_end = e1,
                              !.out = Append(@, Msg("Found orphaned code end", "", e1, 0))]
              ELSE s1
        s3 == IF SS \in line.marks /\ s2.sidebar_start = None
              THEN [s2 EXCEPT !.sidebar_start = i + 1,
                              !.out = Append(@, Msg("Found sidebar start", "", i + 1, 0))]
              ELSE s2
        s4 == IF s3.sidebar_start # None /\ SE \in line.marks /\ s3.sidebar_end = None
                 /\ e1 # None
              THEN [s3 EXCEPT !.sidebar_end = e1,
                              !.out = Append(@, Msg("Found sidebar end", "", e1, 0))]
              ELSE s3
    IN  s4

RECURSIVE ScanMarkers(_, _, _)
ScanMarkers(ls, i, s) ==
    IF i >= Len(ls) THEN s ELSE ScanMarkers(ls, i + 1, ScanLine(ls, i, s))

\* The test with sidebar_end left out.
AllFound_lax(os, oe, ss, se) == os # None /\ oe # None /\ ss # None

\* "all([orphaned_start, orphaned_end, sidebar_start, sidebar_end])"
AllFound(os, oe, ss, se) == os # None /\ oe # None /\ ss # None /\ se # None

DynamicInit ==
    /\ IsDynDoc(input_file)
    /\ lines = input_file
    /\ output_file = << >>
    /\ written = FALSE
    /\ console = << Msg("Original file", "", Len(input_file), 0) >>
    /\ pc = "scan"
    /\ run = 1
    /\ structs_to_remove = << >>
    /\ k = 1
    /\ lines_to_remove = {}
    /\ orphaned_start = None /\ orphaned_end = None
    /\ sidebar_start = None /\ sidebar_end = None
    /\ calls = << >>

\* The marker scan.
Scan ==
    /\ pc = "scan"
    /\ LET s == ScanMarkers(lines, 0,
                            [orphaned_start |-> None, orphaned_end |-> None,
                             sidebar_start |-> None, sidebar_end |-> None,
                             out |-> << >>])
       IN  /\ orphaned_start' = s.orphaned_start
           /\ orphaned_end' = s.orphaned_end
           /\ sidebar_start' = s.sidebar_start
           /\ sidebar_end' = s.sidebar_end
           /\ console' = console \o s.out
    /\ pc' = "check"
    /\ UNCHANGED <<input_file, output_file, written, lines, run, calls>>
    /\ UNCHANGED staticVars

\* "if not all([...]): print ERROR ...; return"
FailUnresolved ==
    /\ pc = "check"
    /\ ~AllFound(orphaned_start, orphaned_end, sidebar_start, sidebar_end)
    /\ console' = console \o
          << Msg("ERROR: Could not find all sections", "", 0, 0),
             Msg("orphaned", "", orphaned_start, orphaned_end),
             Msg("sidebar", "", sidebar_start, sidebar_end) >>
    /\ pc' = "done"
    /\ UNCHANGED <<input_file, output_file, written, lines, run>>
    /\ UNCHANGED staticVars
    /\ UNCHANGED dynamicVars

\* "lines = remove_lines(lines, orphaned_start, orphaned_end)"
RemoveOrphaned ==
    /\ pc = "check"
    /\ AllFound(orphaned_start, orphaned_end, sidebar_start, sidebar_end)
    /\ console' = Append(console, Msg("Removing orphaned code", "",
                                      orphaned_start, orphaned_end))
    /\ lines' = remove_lines(lines, orphaned_start, orphaned_end)
    /\ calls' = Append(calls, [start_line |-> orphaned_start, end_line |-> orphaned_end,
                               given |-> lines, returned |-> lines'])
    /\ pc' = "adjust"
    /\ UNCHANGED <<input_file, output_file, written, run,
                   orphaned_start, orphaned_end, sidebar_start, sidebar_end>>
    /\ UNCHANGED staticVars

\* "lines_removed = orphaned_end - orphaned_start + 1"
lines_removed == orphaned_end - orphaned_start + 1

\* "if sidebar_end > orphaned_start: sidebar_end -= lines_removed"
ShiftSidebarEnd ==
    /\ pc = "adjust"
    /\ sidebar_end > orphaned_start
    /\ sidebar_end' = sidebar_end - lines_removed
    /\ pc' = "sidebar"
    /\ UNCHANGED <<input_file, output_file, written, lines, console, run,
                   orphaned_start, orphaned_end, sidebar_start, calls>>
    /\ UNCHANGED staticVars

KeepSidebarEnd ==
    /\ pc = "adjust"
    /\ ~(sidebar_end > orphaned_start)
    /\ pc' = "sidebar"
    /\ UNCHANGED <<input_file, output_file, written, lines, console, run>>
    /\ UNCHANGED staticVars
    /\ UNCHANGED dynamicVars

\* "lines = remove_lines(lines, sidebar_start, sidebar_end)"
RemoveSidebar ==
    /\ pc = "sidebar"
    /\ console' = Append(console, Msg("Removing sidebar section", "",
                                      sidebar_start, sidebar_end))
    /\ lines' = remove_lines(lines, sidebar_start, sidebar_end)
    /\ calls' = Append(calls, [start_line |-> sidebar_start, end_line |-> sidebar_end,
                               given |-> lines, returned |-> lines'])
    /\ pc' = "write"
    /\ UNCHANGED <<input_file, output_file, written, run,
                   orphaned_start, orphaned_end, sidebar_start, sidebar_end>>
    /\ UNCHANGED staticVars

\* "f.writelines(lines)" and the final prints.
WriteFinal ==
    /\ pc = "write"
    /\ output_file' = lines
    /\ written' = TRUE
    /\ console' = console \o
          << Msg("Final file", "", Len(lines), 0),
             Msg("Total removed", "", Len(input_file) - Len(lines), 0) >>
    /\ pc' = "done"
    /\ UNCHANGED <<input_file, lines, run>>
    /\ UNCHANGED staticVars
    /\ UNCHANGED dynamicVars

DynamicNext ==
    \/ Scan
    \/ FailUnresolved
    \/ RemoveOrphaned
    \/ ShiftSidebarEnd
    \/ KeepSidebarEnd
    \/ RemoveSidebar
    \/ WriteFinal

SpecDynamic == DynamicInit /\ [][DynamicNext]_vars

(***************************************************************************)
(* Properties of the static tool.                                          *)
(***************************************************************************)
\* Target j names a line of the document and that line contains its anchor.
TargetVerified(j) ==
    LET t == structs_to_remove[j]
    IN  /\ t.start_idx < Len(lines)
        /\ t.struct_name \in lines[t.start_idx + 1].names

\* range(start_idx, end_idx) of target j, resolved against the document.
TargetRange(j) ==
    LET t == structs_to_remove[j]
    IN  Range(t.start_idx, remove_struct_definition(lines, t.start_idx))

VerifiedTargets == { j \in 1..Len(structs_to_remove) : TargetVerified(j) }

\* The i-th smallest element of a set of indices.
NthOf(S, i) == CHOOSE x \in S : Cardinality({ y \in S : y < x }) = i - 1

\* Line i (1-based) of the input is on no line of the output.
Removed(i) == \A m \in 1..Len(output_file) : output_file[m] # input_file[i]

C1_ExpectedRemoved == UNION { TargetRange(j) : j \in VerifiedTargets }

C1_Kept == (0..(Len(input_file) - 1)) \ C1_ExpectedRemoved

\* C1: when the static pass completes, the written output is exactly the input
\* lines whose 0-based index is not in lines_to_remove, in their original order
\* and unchanged, lines_to_remove being the union over the verified targets of
\* range(start_idx, end_idx) resolved against the unmodified document; the
\* printed counts are removed = |lines_to_remove| and cleaned = original -
\* removed; and the 10-line scenario document with its block named at line 3
\* yields its lines 1, 2, 7, 8, 9, 10.
C1_StaticOutputIsFilter ==
    pc = "done" =>
        /\ written
        /\ lines = input_file
        /\ lines_to_remove = C1_ExpectedRemoved
        /\ Len(output_file) = Cardinality(C1_Kept)
        /\ \A i \in 1..Len(output_file) :
              output_file[i] = input_file[NthOf(C1_Kept, i) + 1]
        /\ console[Len(console) - 2] = Msg("Removed", "", Cardinality(C1_ExpectedRemoved), 0)
        /\ console[Len(console) - 1] = Msg("Original", "", Len(input_file), 0)
        /\ console[Len(console)] =
              Msg("Cleaned", "", Len(input_file) - Cardinality(C1_ExpectedRemoved), 0)
        /\ Len(output_file) = Len(input_file) - Cardinality(lines_to_remove)
        /\ ( ( /\ input_file = Scenario10
               /\ structs_to_remove = << [struct_name |-> "A", start_idx |-> 2] >> )
             => output_file = << Scenario10[1], Scenario10[2], Scenario10[7],
                                 Scenario10[8], Scenario10[9], Scenario10[10] >> )

\* The scenario run has completed and has written six lines.
C1_Witness ==
    /\ pc = "done"
    /\ input_file = Scenario10
    /\ structs_to_remove = << [struct_name |-> "A", start_idx |-> 2] >>
    /\ Len(output_file) = 6
    /\ output_file[3].txt = 7

\* C3: every processed target whose anchor is not a substring of the line at
\* its expected index is reported with a WARNING naming the expected anchor
\* and the line found, and contributes nothing to lines_to_remove: the marked
\* indices, and the lines missing from the output, all lie in the range
\* resolved from a target whose anchor was verified at its expected index.
C3_VerificationBeforeTrust ==
    /\ \A j \in 1..Len(structs_to_remove) :
          (j < k /\ ~TargetVerified(j)) =>
              LET t == structs_to_remove[j]
              IN  console[j] = Msg("WARNING", t.struct_name, t.start_idx + 1,
                                   lines[t.start_idx + 1].txt)
    /\ lines_to_remove \subseteq
          UNION { TargetRange(j) : j \in { v \in VerifiedTargets : v < k } }
    /\ pc = "done" =>
          \A i \in 1..Len(input_file) :
              Removed(i) => \E j \in VerifiedTargets : (i - 1) \in TargetRange(j)

\* A completed run in which one target was verified and removed while another
\* pointed at a block-opening line of a different name, which stays in the output.
C3_Witness ==
    /\ pc = "done"
    /\ lines_to_remove # {}
    /\ \E j \in 1..Len(structs_to_remove) :
          LET t == structs_to_remove[j]
          IN  /\ t.start_idx < Len(lines)
              /\ ~TargetVerified(j)
              /\ lines[t.start_idx + 1].names # {}
              /\ t.start_idx \notin lines_to_remove
              /\ ~Removed(t.start_idx + 1)

\* C4: no target failure aborts the batch: whatever the document length and the
\* target list, the run never ends in the loop, and a finished run has
\* processed every target and written the output.
C4_NoTargetAbortsBatch ==
    /\ pc # "crashed"
    /\ pc = "done" => (written /\ k = Len(structs_to_remove) + 1)

\* Brace count and started flag after the lines start..i (0-based) of ls.
RECURSIVE StateAfter(_, _, _)
StateAfter(ls, start, i) ==
    IF i < start
    THEN [brace_count |-> 0, started |-> FALSE]
    ELSE LET s == StateAfter(ls, start, i - 1)
         IN  CountBraces(ls[i + 1].braces, 1, s.brace_count, s.started)

\* The scan from start reaches the end of the document without balancing.
NeverBalanced(ls, start) ==
    \A i \in start..(Len(ls) - 1) :
        LET s == StateAfter(ls, start, i)
        IN  ~(s.started /\ s.brace_count = 0)

\* C6: a verified target whose block never balances before the end of the
\* document is treated like a failed anchor: it is reported as a failure, not
\* as marked, and none of its lines enter lines_to_remove.
C6_UnbalancedIsFailure ==
    /\ \A j \in 1..Len(structs_to_remove) :
          (j < k /\ TargetVerified(j)
                 /\ NeverBalanced(lines, structs_to_remove[j].start_idx))
              => console[j].msg # "Marked"
    /\ lines_to_remove \subseteq
          UNION { TargetRange(j) :
                    j \in { v \in VerifiedTargets :
                              ~NeverBalanced(lines, structs_to_remove[v].start_idx) } }

\* The prints the static tool makes on its ordinary paths.
RoutineMsgs == {"Marked", "WARNING", "Removed", "Original", "Cleaned"}

\* C7: when the ranges resolved for two different targets of one pass share a
\* line index, the overlap is reported as an error.
C7_OverlapSurfaced ==
    \A i, j \in 1..Len(structs_to_remove) :
        ( /\ i < j /\ j < k
          /\ structs_to_remove[i] # structs_to_remove[j]
          /\ TargetVerified(i) /\ TargetVerified(j)
          /\ TargetRange(i) \cap TargetRange(j) # {} )
        => \E m \in 1..Len(console) : console[m].msg \notin RoutineMsgs

\* C8: the second run, on the first run's output, where no line contains a
\* target anchor, completes, reports every target as not found, marks nothing
\* and writes a document identical to its input.
C8_RerunIdempotent ==
    ( /\ run = 2
      /\ \A i \in 1..Len(input_file), j \in 1..Len(structs_to_remove) :
            structs_to_remove[j].struct_name \notin input_file[i].names )
    => /\ pc # "crashed"
       /\ lines_to_remove = {}
       /\ \A j \in 1..Len(structs_to_remove) : j < k => console[j].msg = "WARNING"
       /\ pc = "done" => (written /\ output_file = input_file)

\* The 0-based line, from line i character c on, on which the running depth
\* first returns to zero after having been strictly positive; -1 without one.
RECURSIVE FirstClosingLine(_, _, _, _, _)
FirstClosingLine(ls, i, c, depth, positive) ==
    IF i >= Len(ls)
    THEN -1
    ELSE IF c > Len(ls[i + 1].braces)
         THEN FirstClosingLine(ls, i + 1, 1, depth, positive)
         ELSE LET ch == ls[i + 1].braces[c]
                  d == IF ch = "{" THEN depth + 1
                       ELSE IF ch = "}" THEN depth - 1 ELSE depth
              IN  IF positive /\ ch = "}" /\ d = 0
                  THEN i
                  ELSE FirstClosingLine(ls, i, c + 1, d, positive \/ d > 0)

\* C10: the last line of every range the resolver's caller marks is the line on
\* which the depth, tracked character by character, first returns to zero
\* after having been strictly positive; the range runs to the end of the
\* document only if there is no such line.
C10_ClosingLineIsFirstReturnToZero ==
    \A m \in 1..Len(console) :
        console[m].msg = "Marked" =>
            LET start == console[m].a - 1
                end == console[m].b
                ref == FirstClosingLine(lines, start, 1, 0, FALSE)
            IN  IF ref # -1 THEN end = ref + 1 ELSE end = Len(lines)

(***************************************************************************)
(* Properties of the dynamic tool.                                         *)
(***************************************************************************)
\* The line number printed with message m, None when m was never printed.
Printed(m) ==
    LET S == { i \in 1..Len(console) : console[i].msg = m }
    IN  IF S = {} THEN None ELSE console[CHOOSE i \in S : TRUE].a

\* The boundaries as the scan resolved them against the original document.
FoundOrphanedStart == Printed("Found orphaned code start")
FoundOrphanedEnd == Printed("Found orphaned code end")
FoundSidebarStart == Printed("Found sidebar start")
FoundSidebarEnd == Printed("Found sidebar end")

AllFourFound ==
    /\ FoundOrphanedStart # None
    /\ FoundOrphanedEnd # None
    /\ FoundSidebarStart # None
    /\ FoundSidebarEnd # None

\* C2: whenever the two resolved sections are disjoint, the document after both
\* remove_lines calls has the original length minus the two section lengths,
\* whichever section comes first.
C2_RangeSafety ==
    ( /\ Len(calls) = 2
      /\ \/ FoundOrphanedEnd < FoundSidebarStart
         \/ FoundSidebarEnd < FoundOrphanedStart )
    => Len(lines) = Len(input_file)
                      - (FoundOrphanedEnd - FoundOrphanedStart + 1)
                      - (FoundSidebarEnd - FoundSidebarStart + 1)

\* C5: if any of the four boundaries is left unresolved by the scan, the run
\* reports the failure and ends with no remove_lines call, the document
\* untouched and no output written; output is written, and remove_lines is
\* called, only when all four were resolved.
C5_DynamicAllOrNothing ==
    /\ (pc # "scan" /\ ~AllFourFound) =>
          /\ calls = << >>
          /\ lines = input_file
          /\ ~written
          /\ output_file = << >>
          /\ pc \in {"check", "done"}
          /\ pc = "done" =>
                \E m \in 1..Len(console) :
                    console[m].msg = "ERROR: Could not find all sections"
    /\ written => AllFourFound
    /\ calls # << >> => AllFourFound

\* A finished run that resolved three boundaries but not the sidebar end.
C5_Witness ==
    /\ pc = "done"
    /\ FoundOrphanedStart # None
    /\ FoundOrphanedEnd # None
    /\ FoundSidebarStart # None
    /\ FoundSidebarEnd = None
    /\ ~written

\* C9: every range that is resolved or applied lies inside its document: each
\* range the static tool marks has start_idx < end_idx <= len(lines), and each
\* remove_lines call of the dynamic tool receives
\* 1 <= start_line <= end_line <= len(lines) of the list it is given and
\* returns a list that is no longer than that list and repeats none of its lines.
C9_BlockRangeInvariant ==
    /\ \A m \in 1..Len(console) :
          console[m].msg = "Marked" =>
              /\ console[m].a - 1 < console[m].b
              /\ console[m].b <= Len(lines)
    /\ \A c \in 1..Len(calls) :
          /\ 1 <= calls[c].start_line
          /\ calls[c].start_line <= calls[c].end_line
          /\ calls[c].end_line <= Len(calls[c].given)
          /\ Len(calls[c].returned) <= Len(calls[c].given)
          /\ \A i, j \in 1..Len(calls[c].returned) :
                i # j => calls[c].returned[i] # calls[c].returned[j]

\* The lines of seq whose line number in the original document is outside a..b.
Without(seq, a, b) == SelectSeq(seq, LAMBDA l : ~(a <= l.txt /\ l.txt <= b))

\* C11: the two resolved sections are applied in strictly descending
\* start-position order (the section removed first starts later in the
\* original document), and the section applied second has its boundaries
\* re-expressed so that the second remove_lines call deletes exactly the lines
\* that section occupied in the original document.
C11_DescendingOrderAndReexpressed ==
    Len(calls) = 2 =>
        /\ FoundOrphanedStart > FoundSidebarStart
        /\ calls[2].returned =
              Without(calls[2].given, FoundSidebarStart, FoundSidebarEnd)

\* The 1-indexed numbers of the lines of the original document containing mark.
LinesWith(mark) == { i \in 1..Len(input_file) : mark \in input_file[i].marks }

SetMin(S) == CHOOSE x \in S : \A y \in S : x <= y

\* The first line containing mark, None without one.
FirstWith(mark) == IF LinesWith(mark) = {} THEN None ELSE SetMin(LinesWith(mark))

\* The first line whose trimmed content is "}" among the Lookahead lines
\* beginning at line j, None without one.
WindowClose(j) ==
    LET W == { c \in j..(j + Lookahead - 1) :
                 c <= Len(input_file) /\ input_file[c].close }
    IN  IF W = {} THEN None ELSE SetMin(W)

\* The end resolved from the first occurrence of the end marker at or after start.
EndFromFirstOccurrence(start, endmark) ==
    LET J == { j \in LinesWith(endmark) : j >= start }
    IN  IF start = None \/ J = {} THEN None ELSE WindowClose(SetMin(J))

\* The end resolved from the first occurrence of the end marker at or after
\* start whose window holds a closing line.
EndFromFirstClosableOccurrence(start, endmark) ==
    LET J == { j \in LinesWith(endmark) : j >= start /\ WindowClose(j) # None }
    IN  IF start = None \/ J = {} THEN None ELSE WindowClose(SetMin(J))

\* A run with an unresolved boundary fails: no call, nothing written.
FailsWhenUnresolved ==
    (pc = "done" /\ ~AllFourFound) =>
        /\ ~written
        /\ calls = << >>
        /\ \E m \in 1..Len(console) :
              console[m].msg = "ERROR: Could not find all sections"

\* C12 as stated: each start is the first line containing the start marker and
\* each end is resolved from the first occurrence of the end marker at or after
\* that start, as the first closing line among the 10 lines beginning there; if
\* that window holds no closing line, or a marker is absent, the pair is
\* unresolved and the run fails, a later occurrence not being used instead.
C12_EndFromFirstOccurrenceOnly ==
    pc # "scan" =>
        /\ FoundOrphanedStart = FirstWith(OS)
        /\ FoundSidebarStart = FirstWith(SS)
        /\ FoundOrphanedEnd = EndFromFirstOccurrence(FirstWith(OS), OE)
        /\ FoundSidebarEnd = EndFromFirstOccurrence(FirstWith(SS), SE)
        /\ FailsWhenUnresolved

\* C12 amended: each start is the first line containing the start marker and
\* each end is resolved from the first occurrence of the end marker, at or
\* after that start, whose 10-line window holds a closing line: it is the first
\* closing line of that window. Occurrences whose window holds no closing line
\* are passed over. The pair is unresolved, and the run fails, only if a marker
\* is absent or no occurrence at or after the start has a closing line in its
\* window.
C12_EndFromFirstClosableOccurrence ==
    pc # "scan" =>
        /\ FoundOrphanedStart = FirstWith(OS)
        /\ FoundSidebarStart = FirstWith(SS)
        /\ FoundOrphanedEnd = EndFromFirstClosableOccurrence(FirstWith(OS), OE)
        /\ FoundSidebarEnd = EndFromFirstClosableOccurrence(FirstWith(SS), SE)
        /\ pc = "check" =>
              /\ orphaned_start = FoundOrphanedStart
              /\ orphaned_end = FoundOrphanedEnd
              /\ sidebar_start = FoundSidebarStart
              /\ sidebar_end = FoundSidebarEnd
        /\ FailsWhenUnresolved

\* A scanned document whose first orphaned end marker has no closing line in
\* its window while a later one has: the end is resolved from the later one.
C12_Witness ==
    /\ pc # "scan"
    /\ FirstWith(OS) # None
    /\ EndFromFirstOccurrence(FirstWith(OS), OE) = None
    /\ FoundOrphanedEnd # None

\* C13: when all four boundaries resolve and the sidebar section lies wholly
\* before the orphaned section (sidebar_end < orphaned_start), sidebar_end is
\* left unshifted and the written output is exactly the original document with
\* the lines sidebar_start..sidebar_end and orphaned_start..orphaned_end
\* (1-indexed, inclusive) removed, every other line unchanged and in order.
C13_SidebarFirstOutput ==
    (AllFourFound /\ FoundSidebarEnd < FoundOrphanedStart) =>
        /\ sidebar_end = FoundSidebarEnd
        /\ written =>
              /\ output_file =
                    Without(Without(input_file, FoundSidebarStart, FoundSidebarEnd),
                            FoundOrphanedStart, FoundOrphanedEnd)
              /\ Len(output_file) =
                    Len(input_file) - (FoundSidebarEnd - FoundSidebarStart + 1)
                                    - (FoundOrphanedEnd - FoundOrphanedStart + 1)

\* A written run whose sidebar section ended before the orphaned section began,
\* with lines of the original left before, between and after the two sections.
C13_Witness ==
    /\ pc = "done"
    /\ written
    /\ AllFourFound
    /\ FoundSidebarEnd < FoundOrphanedStart
    /\ Len(calls) = 2
    /\ Len(output_file) = 3

====
